---- MODULE Spec2Model ----
(***************************************************************************)
(* Course-seat allocation in fairpyx: the AllocationBuilder state machine, *)
(* the picking-sequence family (picking_sequence, round_robin,             *)
(* serial_dictatorship, bidirectional_round_robin) and the SP-O mechanism  *)
(* (SP_O_function).                                                        *)
(*                                                                         *)
(* The algorithms are translated from src/fairpyx/algorithms.  The         *)
(* AllocationBuilder and the Instance are not part of src/; their          *)
(* operations are modelled from the specification's sections 3 and 4.1.    *)
(***************************************************************************)
EXTENDS Integers, Sequences, FiniteSets, TLC

(***************************************************************************)
(* Bounds of the model.                                                    *)
(***************************************************************************)
\* largest agent capacity and largest item capacity of an instance
MaxCap == 2
\* longest agent_order a caller passes explicitly
MaxOrderLen == 2
\* largest number of (agent, item) pairs declared as agent conflicts
MaxAgentConflicts == 1

\* the agents and the items of the instances explored exhaustively, in the
\* instance's original order
AgentList == <<"Alice", "Bob">>
ItemList == <<"c1", "c2">>

Range(s) == {s[k] : k \in 1..Len(s)}
Agents == Range(AgentList)
Items == Range(ItemList)

\* agent_order=None, the default of round_robin, serial_dictatorship and
\* bidirectional_round_robin
None == <<"None">>

VARIABLES
    instance,       \* the immutable Instance; agents and items hold its agents
                    \* and items in their original order
    algorithm,      \* the algorithm that divide() runs on the builder
    order_arg,      \* the agent_order argument of the call (None when omitted)
    alloc,          \* the AllocationBuilder
    agent_order,    \* picking_sequence's agent_order
    pos,            \* index in agent_order of the next element cycle() yields
    pc,             \* "call", "loop", "iterate", "commit", "done", "error"
    turn,           \* loop turns of picking_sequence completed: counted up to
                    \* one past the first lap, by parity after that
    log,            \* the gives made so far, in order: <<agent, item, t>>, t the
                    \* loop turn (picking_sequence) or iteration (SP-O), from 1
    removed,        \* agents that picking_sequence removed from the loop
    max_iterations, \* SP_O_function's max_iterations
    iteration,      \* SP_O_function's iteration
    pending,        \* SP_O_function's assign_map_course_to_student, not yet given
    given_now,      \* agents given an item in the current SP-O iteration
    rank_mat,       \* SP_O_function's rank_mat, as built by the last iteration
    result_Zt1,     \* SP_O_function's result_Zt1 of the last iteration: the
                    \* set of the optimal value, empty for None
    second          \* [alloc, pos, pc] of a second run of the same call, for
                    \* the comparison of two runs

vars == <<instance, algorithm, order_arg, alloc, agent_order, pos, pc, turn,
          log, removed, max_iterations, iteration, pending, given_now,
          rank_mat, result_Zt1, second>>

(***************************************************************************)
(* Helpers on functions and sequences.                                     *)
(***************************************************************************)
Restrict(f, S) == [x \in S |-> f[x]]

RECURSIVE Flatten(_)
Flatten(ss) == IF ss = <<>> THEN <<>> ELSE Head(ss) \o Flatten(Tail(ss))

Repeat(x, n) == [k \in 1..n |-> x]

\* Python's reversed()
Reversed(s) == [k \in 1..Len(s) |-> s[Len(s) + 1 - k]]

SeqsUpTo(S, n) == UNION {[1..k -> S] : k \in 0..n}

(***************************************************************************)
(* Instance (specification section 3).                                     *)
(***************************************************************************)
\* symmetric, irreflexive item-conflict tables: a set of unordered pairs
ItemPairs == {p \in SUBSET Items : Cardinality(p) = 2}
ItemConflictTables ==
    {[i \in Items |-> {j \in Items : {i, j} \in P}] : P \in SUBSET ItemPairs}

AgentConflictTables ==
    {[a \in Agents |-> {i \in Items : <<a, i>> \in P}] :
        P \in {Q \in SUBSET (Agents \X Items) : Cardinality(Q) <= MaxAgentConflicts}}

\* Only the order of an agent's values decides a pick or a rank, so one
\* value table per weak order of the items: the values used are 1..m
ValueTables ==
    {v \in [Items -> 1..Cardinality(Items)] :
        \E m \in 1..Cardinality(Items) : {v[i] : i \in Items} = 1..m}

Instances ==
    [agents : {AgentList},
     items : {ItemList},
     agent_capacity : [Agents -> 0..MaxCap],
     item_capacity : [Items -> 0..MaxCap],
     valuation : [Agents -> ValueTables],
     agent_conflicts : AgentConflictTables,
     item_conflicts : ItemConflictTables]

(***************************************************************************)
(* The instances of the doctests.                                          *)
(***************************************************************************)
NoConflicts(agents, items) ==
    [agent_conflicts |-> [a \in Range(agents) |-> {}],
     item_conflicts |-> [i \in Range(items) |-> {}]]

\* the instance of round_robin's doctest (Scenario 1)
Scenario1 ==
    LET agents == <<"Alice", "Bob", "Chana", "Dana">>
        items == <<"c1", "c2", "c3">>
        high == ("c1" :> 10) @@ ("c2" :> 8) @@ ("c3" :> 6)
        low == ("c1" :> 6) @@ ("c2" :> 8) @@ ("c3" :> 10)
    IN [agents |-> agents,
        items |-> items,
        agent_capacity |->
            ("Alice" :> 2) @@ ("Bob" :> 3) @@ ("Chana" :> 2) @@ ("Dana" :> 3),
        item_capacity |-> ("c1" :> 2) @@ ("c2" :> 3) @@ ("c3" :> 4),
        valuation |->
            ("Alice" :> high) @@ ("Bob" :> high) @@ ("Chana" :> low) @@ ("Dana" :> low),
        agent_conflicts |-> NoConflicts(agents, items).agent_conflicts,
        item_conflicts |-> NoConflicts(agents, items).item_conflicts]

\* the instance of SP_O_function's doctest (Scenario 5)
Scenario5 ==
    LET agents == <<"s1", "s2">>
        items == <<"c1", "c2", "c3">>
    IN [agents |-> agents,
        items |-> items,
        agent_capacity |-> ("s1" :> 1) @@ ("s2" :> 1),
        item_capacity |-> ("c1" :> 1) @@ ("c2" :> 1) @@ ("c3" :> 1),
        valuation |->
            ("s1" :> (("c1" :> 50) @@ ("c2" :> 49) @@ ("c3" :> 1))) @@
            ("s2" :> (("c1" :> 48) @@ ("c2" :> 46) @@ ("c3" :> 6))),
        agent_conflicts |-> NoConflicts(agents, items).agent_conflicts,
        item_conflicts |-> NoConflicts(agents, items).item_conflicts]

\* inst and the instances that differ from it by smaller capacities
WithFewerSeats(inst) ==
    {[inst EXCEPT !.agent_capacity = ac, !.item_capacity = ic] :
        ac \in {f \in [Range(inst.agents) ->
                        UNION {0..inst.agent_capacity[a] : a \in Range(inst.agents)}] :
                    \A a \in Range(inst.agents) : f[a] \in {0, inst.agent_capacity[a]}},
        ic \in {f \in [Range(inst.items) ->
                        UNION {0..inst.item_capacity[i] : i \in Range(inst.items)}] :
                    \A i \in Range(inst.items) : f[i] <= inst.item_capacity[i]}}

(***************************************************************************)
(* AllocationBuilder (specification sections 3 and 4.1).                   *)
(***************************************************************************)
\* the builder right after construction from inst
AllocationBuilder(inst) ==
    [remaining_agent_capacities |->
        Restrict(inst.agent_capacity,
                 {a \in Range(inst.agents) : inst.agent_capacity[a] > 0}),
     remaining_item_capacities |->
        Restrict(inst.item_capacity,
                 {i \in Range(inst.items) : inst.item_capacity[i] > 0}),
     remaining_conflicts |->
        {<<a, i>> \in Range(inst.agents) \X Range(inst.items) :
            i \in inst.agent_conflicts[a]},
     bundles |-> [a \in Range(inst.agents) |-> <<>>]]

remaining_agents(al) ==
    SelectSeq(instance.agents, LAMBDA a : a \in DOMAIN al.remaining_agent_capacities)

remaining_items(al) ==
    SelectSeq(instance.items, LAMBDA i : i \in DOMAIN al.remaining_item_capacities)

ItemsConflict(i, j) ==
    j \in instance.item_conflicts[i] \/ i \in instance.item_conflicts[j]

remaining_items_for_agent(al, agent) ==
    {item \in DOMAIN al.remaining_item_capacities :
        /\ <<agent, item>> \notin al.remaining_conflicts
        /\ item \notin Range(al.bundles[agent])
        /\ \A b \in Range(al.bundles[agent]) : ~ItemsConflict(item, b)}

effective_value(al, agent, item) == instance.valuation[agent][item]

isdone(al) ==
    \/ DOMAIN al.remaining_item_capacities = {}
    \/ DOMAIN al.remaining_agent_capacities = {}

\* give's precondition
give_allowed(al, agent, item) ==
    /\ agent \in DOMAIN al.remaining_agent_capacities
    /\ item \in DOMAIN al.remaining_item_capacities
    /\ <<agent, item>> \notin al.remaining_conflicts

\* TakeSeat with the key kept in the table at 0
TakeSeat_keeps_zero(cap, x) == [cap EXCEPT ![x] = cap[x] - 1]

\* a remaining-capacity table with one seat of key x taken; a key that
\* reaches 0 leaves the table
TakeSeat(cap, x) ==
    IF cap[x] <= 1
        THEN Restrict(cap, DOMAIN cap \ {x})
        ELSE [cap EXCEPT ![x] = cap[x] - 1]

\* give without the decrement of the item's remaining capacity
give_keeps_item_seat(al, agent, item) ==
    [remaining_agent_capacities |-> TakeSeat(al.remaining_agent_capacities, agent),
     remaining_item_capacities |-> al.remaining_item_capacities,
     remaining_conflicts |->
        al.remaining_conflicts \cup
            {<<agent, c>> : c \in instance.item_conflicts[item]},
     bundles |-> [al.bundles EXCEPT ![agent] = Append(al.bundles[agent], item)]]

\* give without the propagation of item conflicts
give_no_propagation(al, agent, item) ==
    [remaining_agent_capacities |-> TakeSeat(al.remaining_agent_capacities, agent),
     remaining_item_capacities |-> TakeSeat(al.remaining_item_capacities, item),
     remaining_conflicts |-> al.remaining_conflicts,
     bundles |-> [al.bundles EXCEPT ![agent] = Append(al.bundles[agent], item)]]

\* the builder after give(agent, item), its precondition holding
give(al, agent, item) ==
    [remaining_agent_capacities |-> TakeSeat(al.remaining_agent_capacities, agent),
     remaining_item_capacities |-> TakeSeat(al.remaining_item_capacities, item),
     remaining_conflicts |->
        al.remaining_conflicts \cup
            {<<agent, c>> : c \in instance.item_conflicts[item]},
     bundles |-> [al.bundles EXCEPT ![agent] = Append(al.bundles[agent], item)]]

remove_agent_from_loop(al, agent) ==
    [al EXCEPT !.remaining_agent_capacities =
        Restrict(al.remaining_agent_capacities,
                 DOMAIN al.remaining_agent_capacities \ {agent})]

(***************************************************************************)
(* The calls divide() makes.                                               *)
(***************************************************************************)
Algorithms == {"picking_sequence", "round_robin", "serial_dictatorship",
               "bidirectional_round_robin", "SP_O_function"}

ExplicitOrders == SeqsUpTo(Agents, MaxOrderLen)

\* the agent_order arguments a call of algorithm alg may get
OrderArgs(alg) ==
    CASE alg = "picking_sequence" -> ExplicitOrders
      [] alg = "SP_O_function" -> {None}
      [] OTHER -> ExplicitOrders \cup {None}

\* the state when divide() has built the builder and is about to call one of
\* the algorithms algs
InitFor(algs) ==
    /\ instance \in Instances
    /\ algorithm \in algs
    /\ order_arg \in OrderArgs(algorithm)
    /\ alloc = AllocationBuilder(instance)
    /\ agent_order = <<>>
    /\ pos = 1
    /\ pc = "call"
    /\ turn = 0
    /\ log = <<>>
    /\ removed = {}
    /\ max_iterations = 0
    /\ iteration = 0
    /\ pending = <<>>
    /\ given_now = {}
    /\ rank_mat = <<>>
    /\ result_Zt1 = {0}
    /\ second = [alloc |-> alloc, pos |-> 1, pc |-> "call"]

Init == InitFor(Algorithms)

\* the orders in which each agent of inst appears once
OnceEachOrders(inst) ==
    {order \in [1..Len(inst.agents) -> Range(inst.agents)] :
        Range(order) = Range(inst.agents)}

\* the calls of the doctests of round_robin and SP_O_function, on the
\* doctest's instance or on one with fewer seats; round_robin with the
\* default order or with an order that names each agent once
InitScenarios ==
    /\ \/ /\ instance \in WithFewerSeats(Scenario1)
          /\ algorithm = "round_robin"
          /\ order_arg \in {None} \cup OnceEachOrders(instance)
       \/ /\ instance \in WithFewerSeats(Scenario5)
          /\ algorithm = "SP_O_function"
          /\ order_arg = None
    /\ alloc = AllocationBuilder(instance)
    /\ agent_order = <<>>
    /\ pos = 1
    /\ pc = "call"
    /\ turn = 0
    /\ log = <<>>
    /\ removed = {}
    /\ max_iterations = 0
    /\ iteration = 0
    /\ pending = <<>>
    /\ given_now = {}
    /\ rank_mat = <<>>
    /\ result_Zt1 = {0}
    /\ second = [alloc |-> alloc, pos |-> 1, pc |-> "call"]

(***************************************************************************)
(* picking_sequence.py                                                     *)
(***************************************************************************)
spo_vars == <<max_iterations, iteration, pending, given_now, rank_mat,
              result_Zt1>>

\* what no step of a single run changes
fixed == <<instance, algorithm, order_arg, second>>

\* entering picking_sequence(alloc, order): the loop starts at the first
\* element of cycle(order)
EnterLoop(order) ==
    /\ agent_order' = order
    /\ pos' = 1
    /\ pc' = "loop"
    /\ UNCHANGED <<fixed, alloc, turn, log, removed,
                   spo_vars>>

call_picking_sequence ==
    /\ pc = "call"
    /\ algorithm = "picking_sequence"
    /\ EnterLoop(order_arg)

\* RoundRobinOrder with the default order taken from the last agent to the first
RoundRobinOrder_reversed(al, arg) ==
    IF arg = None THEN Reversed(remaining_agents(al)) ELSE arg

RoundRobinOrder(al, arg) == IF arg = None THEN remaining_agents(al) ELSE arg

round_robin ==
    /\ pc = "call"
    /\ algorithm = "round_robin"
    /\ EnterLoop(RoundRobinOrder(alloc, order_arg))

\* serial_dictatorship's lookup alloc.remaining_agent_capacities[agent]
\* raises KeyError for an agent without remaining capacity
SerialOrderDefined(al, arg) ==
    arg = None \/ Range(arg) \subseteq DOMAIN al.remaining_agent_capacities

\* SerialOrder without the repetition of each agent by its capacity
SerialOrder_no_repeat(al, arg) ==
    IF arg = None THEN remaining_agents(al) ELSE arg

SerialOrder(al, arg) ==
    LET order == IF arg = None THEN remaining_agents(al) ELSE arg
    IN Flatten([k \in 1..Len(order) |->
                    Repeat(order[k], al.remaining_agent_capacities[order[k]])])

serial_dictatorship ==
    /\ pc = "call"
    /\ algorithm = "serial_dictatorship"
    /\ IF SerialOrderDefined(alloc, order_arg)
          THEN EnterLoop(SerialOrder(alloc, order_arg))
          ELSE /\ pc' = "error"
               /\ UNCHANGED <<fixed, alloc, agent_order,
                              pos, turn, log, removed, spo_vars>>

\* BidirectionalOrder with the second lap not reversed
BidirectionalOrder_forward(al, arg) ==
    LET order == IF arg = None THEN remaining_agents(al) ELSE arg
    IN order \o order

BidirectionalOrder(al, arg) ==
    LET order == IF arg = None THEN remaining_agents(al) ELSE arg
    IN order \o Reversed(order)

bidirectional_round_robin ==
    /\ pc = "call"
    /\ algorithm = "bidirectional_round_robin"
    /\ EnterLoop(BidirectionalOrder(alloc, order_arg))

\* NextPos that passes over one element of the cycle
NextPos_passes_one == ((pos + 1) % Len(agent_order)) + 1

\* the element of cycle(agent_order) that follows the one at pos
NextPos == (pos % Len(agent_order)) + 1

\* the turn counter: exact up to one past the first lap, then its parity
NextTurn ==
    IF turn <= Len(agent_order) + 1 THEN turn + 1 ELSE Len(agent_order) + 1

\* the agent whose turn it is
CurrentAgent == agent_order[pos]

\* cycle() of an empty list yields nothing: the for loop ends at once
ps_exhausted ==
    /\ pc = "loop"
    /\ agent_order = <<>>
    /\ pc' = "done"
    /\ UNCHANGED <<fixed, alloc, agent_order, pos,
                   turn, log, removed, spo_vars>>

\* ps_break without the test of isdone(): the loop ends at its first turn
ps_break_at_once ==
    /\ pc = "loop"
    /\ agent_order # <<>>
    /\ pc' = "done"
    /\ UNCHANGED <<fixed, alloc, agent_order, pos,
                   turn, log, removed, spo_vars>>

\* lines 33-35: isdone() ends the loop
ps_break ==
    /\ pc = "loop"
    /\ agent_order # <<>>
    /\ isdone(alloc)
    /\ pc' = "done"
    /\ UNCHANGED <<fixed, alloc, agent_order, pos,
                   turn, log, removed, spo_vars>>

\* ps_skip that also frees the agent of its forbidden pairs
ps_skip_clears_conflicts ==
    /\ pc = "loop"
    /\ agent_order # <<>>
    /\ ~isdone(alloc)
    /\ CurrentAgent \notin DOMAIN alloc.remaining_agent_capacities
    /\ alloc' = [alloc EXCEPT !.remaining_conflicts =
                    {p \in alloc.remaining_conflicts : p[1] # CurrentAgent}]
    /\ pos' = NextPos
    /\ turn' = NextTurn
    /\ UNCHANGED <<fixed, agent_order, pc, log, removed, spo_vars>>

\* lines 36-38: the agent has no remaining capacity
ps_skip ==
    /\ pc = "loop"
    /\ agent_order # <<>>
    /\ ~isdone(alloc)
    /\ CurrentAgent \notin DOMAIN alloc.remaining_agent_capacities
    /\ pos' = NextPos
    /\ turn' = NextTurn
    /\ UNCHANGED <<fixed, alloc, agent_order, pc,
                   log, removed, spo_vars>>

\* ps_remove without the call of line 42
ps_remove_without_removal ==
    /\ pc = "loop"
    /\ agent_order # <<>>
    /\ ~isdone(alloc)
    /\ CurrentAgent \in DOMAIN alloc.remaining_agent_capacities
    /\ remaining_items_for_agent(alloc, CurrentAgent) = {}
    /\ pos' = NextPos
    /\ turn' = NextTurn
    /\ UNCHANGED <<fixed, alloc, agent_order, pc, log, removed, spo_vars>>

\* ps_remove without the check of line 36
ps_remove_unchecked ==
    /\ pc = "loop"
    /\ agent_order # <<>>
    /\ ~isdone(alloc)
    /\ remaining_items_for_agent(alloc, CurrentAgent) = {}
    /\ alloc' = remove_agent_from_loop(alloc, CurrentAgent)
    /\ removed' = removed \cup {CurrentAgent}
    /\ pos' = NextPos
    /\ turn' = NextTurn
    /\ UNCHANGED <<fixed, agent_order, pc, log, spo_vars>>

\* lines 39-43: the agent cannot pick any more items
ps_remove ==
    /\ pc = "loop"
    /\ agent_order # <<>>
    /\ ~isdone(alloc)
    /\ CurrentAgent \in DOMAIN alloc.remaining_agent_capacities
    /\ remaining_items_for_agent(alloc, CurrentAgent) = {}
    /\ alloc' = remove_agent_from_loop(alloc, CurrentAgent)
    /\ removed' = removed \cup {CurrentAgent}
    /\ pos' = NextPos
    /\ turn' = NextTurn
    /\ UNCHANGED <<fixed, agent_order, pc, log, spo_vars>>

\* BestItems without the maximisation: any potential item
BestItems_any(al, agent) == remaining_items_for_agent(al, agent)

\* line 44: max() over a set of items returns the first item of maximal key
\* in the set's iteration order, which for str items follows the process's
\* hash seed: any item of maximal effective value can be the one returned
BestItems(al, agent) ==
    LET potential_items_for_agent == remaining_items_for_agent(al, agent)
    IN {item \in potential_items_for_agent :
          \A other \in potential_items_for_agent :
              effective_value(al, agent, other) <= effective_value(al, agent, item)}

\* lines 44-46: the agent picks a best item
ps_pick ==
    /\ pc = "loop"
    /\ agent_order # <<>>
    /\ ~isdone(alloc)
    /\ CurrentAgent \in DOMAIN alloc.remaining_agent_capacities
    /\ remaining_items_for_agent(alloc, CurrentAgent) # {}
    /\ \E best_item_for_agent \in BestItems(alloc, CurrentAgent) :
          IF give_allowed(alloc, CurrentAgent, best_item_for_agent)
             THEN /\ alloc' = give(alloc, CurrentAgent, best_item_for_agent)
                  /\ log' = Append(log, <<CurrentAgent, best_item_for_agent, turn + 1>>)
                  /\ pos' = NextPos
                  /\ turn' = NextTurn
                  /\ UNCHANGED pc
             ELSE /\ pc' = "error"
                  /\ UNCHANGED <<alloc, log, pos, turn>>
    /\ UNCHANGED <<fixed, agent_order, removed, spo_vars>>

picking_sequence == ps_exhausted \/ ps_break \/ ps_skip \/ ps_remove \/ ps_pick

\* lines 32-46 as a relation: the [alloc, pos, pc] that one pass through the
\* loop of picking_sequence(al, order) can lead to, cycle() being at index p
PickingSequenceTurn(al, order, p) ==
    IF order = <<>> \/ isdone(al)
        THEN {[alloc |-> al, pos |-> p, pc |-> "done"]}
    ELSE LET agent == order[p]
             next == (p % Len(order)) + 1
         IN IF agent \notin DOMAIN al.remaining_agent_capacities
                THEN {[alloc |-> al, pos |-> next, pc |-> "loop"]}
            ELSE IF remaining_items_for_agent(al, agent) = {}
                THEN {[alloc |-> remove_agent_from_loop(al, agent),
                       pos |-> next, pc |-> "loop"]}
            ELSE {IF give_allowed(al, agent, best_item_for_agent)
                     THEN [alloc |-> give(al, agent, best_item_for_agent),
                           pos |-> next, pc |-> "loop"]
                     ELSE [alloc |-> al, pos |-> p, pc |-> "error"] :
                  best_item_for_agent \in BestItems(al, agent)}

(***************************************************************************)
(* Two runs of the same call of divide(), on the same instance with the    *)
(* same agent_order argument, side by side: this run in alloc, pos and pc, *)
(* the other in second.  Each run makes its own picks.                     *)
(***************************************************************************)
\* whether the call reaches picking_sequence
CallDefined(alg, al, arg) ==
    alg = "serial_dictatorship" => SerialOrderDefined(al, arg)

\* the agent_order the algorithm hands to picking_sequence
CallOrder(alg, al, arg) ==
    CASE alg = "picking_sequence" -> arg
      [] alg = "round_robin" -> RoundRobinOrder(al, arg)
      [] alg = "serial_dictatorship" -> SerialOrder(al, arg)
      [] alg = "bidirectional_round_robin" -> BidirectionalOrder(al, arg)

both_call ==
    /\ pc = "call"
    /\ IF CallDefined(algorithm, alloc, order_arg)
          THEN /\ agent_order' = CallOrder(algorithm, alloc, order_arg)
               /\ pc' = "loop"
               /\ second' = [second EXCEPT !.pc = "loop"]
          ELSE /\ pc' = "error"
               /\ second' = [second EXCEPT !.pc = "error"]
               /\ UNCHANGED agent_order
    /\ UNCHANGED <<instance, algorithm, order_arg, alloc, pos, turn, log,
                   removed, spo_vars>>

\* the runs after one more pass of each through the loop; a run that has
\* left the loop stays as it is
AfterTurn(run, order) ==
    IF run.pc = "loop"
        THEN PickingSequenceTurn(run.alloc, order, run.pos)
        ELSE {run}

both_turn ==
    /\ pc = "loop" \/ second.pc = "loop"
    /\ \E first \in AfterTurn([alloc |-> alloc, pos |-> pos, pc |-> pc], agent_order) :
          /\ alloc' = first.alloc
          /\ pos' = first.pos
          /\ pc' = first.pc
    /\ second' \in AfterTurn(second, agent_order)
    /\ UNCHANGED <<instance, algorithm, order_arg, agent_order, turn, log,
                   removed, spo_vars>>

NextTwoRuns == both_call \/ both_turn

(***************************************************************************)
(* Optimization_based_Mechanisms/SP_O.py                                   *)
(***************************************************************************)
ps_vars == <<agent_order, pos, turn, removed>>

SetMax(S) == CHOOSE m \in S : \A n \in S : n <= m

\* lines 37-38: max() of an empty sequence raises ValueError
spo_start ==
    /\ pc = "call"
    /\ algorithm = "SP_O_function"
    /\ IF remaining_agents(alloc) = <<>>
          THEN /\ pc' = "error"
               /\ UNCHANGED max_iterations
          ELSE /\ max_iterations' =
                    SetMax({alloc.remaining_agent_capacities[agent] :
                               agent \in Range(remaining_agents(alloc))})
               /\ pc' = "iterate"
    /\ iteration' = 0
    /\ UNCHANGED <<fixed, alloc, ps_vars, log,
                   pending, given_now, rank_mat, result_Zt1>>

Perms(S) == {s \in [1..Cardinality(S) -> S] : Range(s) = S}

\* line 45: sorted() by ascending effective value; items of equal value keep
\* the order in which remaining_items_for_agent yields them
SortedCourses(al, student) ==
    {s \in Perms(remaining_items_for_agent(al, student)) :
        \A k \in 1..(Len(s) - 1) :
            effective_value(al, student, s[k]) <= effective_value(al, student, s[k + 1])}

\* sorted_courses.index(course) + 1
IndexOf(s, x) == CHOOSE k \in 1..Len(s) : s[k] = x

\* lines 48-51: one entry of rank_mat
RankEntry(sorted_courses, course) ==
    IF course \in Range(sorted_courses)
        THEN IndexOf(sorted_courses, course)
        ELSE Len(sorted_courses) + 1

\* lines 41-51: the rank matrices an iteration can build, rank_mat[i][j] for
\* the i-th remaining item and the j-th remaining agent
RankMats(al) ==
    LET students == remaining_agents(al)
        courses == remaining_items(al)
        sortings ==
            {sc \in [1..Len(students) ->
                        UNION {SortedCourses(al, students[j]) : j \in 1..Len(students)}] :
                \A j \in 1..Len(students) : sc[j] \in SortedCourses(al, students[j])}
    IN {[i \in 1..Len(courses) |->
            [j \in 1..Len(students) |-> RankEntry(sc[j], courses[i])]] :
        sc \in sortings}

\* lines 60-74: the 0/1 matrices x that satisfy constraints_Zt1, each as the
\* function from an agent's index j to the index i of the item with
\* x[i, j] = 1, or 0 when the agent's column is all 0
FeasibleZt1(al) ==
    LET students == remaining_agents(al)
        courses == remaining_items(al)
    IN {x \in [1..Len(students) -> 0..Len(courses)] :
          /\ \A i \in 1..Len(courses) :
                Cardinality({j \in 1..Len(students) : x[j] = i})
                    <= al.remaining_item_capacities[courses[i]]
          /\ \A j \in 1..Len(students) :
                x[j] # 0 => <<students[j], courses[x[j]]>> \notin al.remaining_conflicts}

RECURSIVE ObjectiveUpTo(_, _, _)
ObjectiveUpTo(rm, x, j) ==
    IF j = 0 THEN 0
    ELSE (IF x[j] = 0 THEN 0 ELSE rm[x[j]][j]) + ObjectiveUpTo(rm, x, j - 1)

\* lines 55-58: objective_Zt1
ObjectiveZt1(rm, x) == ObjectiveUpTo(rm, x, Len(x))

\* line 77: the optimal solutions of program Zt1
OptimalZt1(al, rm) ==
    {x \in FeasibleZt1(al) :
        \A y \in FeasibleZt1(al) : ObjectiveZt1(rm, y) <= ObjectiveZt1(rm, x)}

\* line 92: the rank that the constraint of the i-th remaining agent and the
\* j-th remaining item takes from the matrix
Wt1Rank(rm, i, j) == rm[i][j]

\* line 92 reads rank_mat[i][j] with i an agent index and j an item index,
\* while rank_mat has one row per item and one column per agent
Wt1LookupsInBounds(al) ==
    \A i \in 1..Len(remaining_agents(al)) : \A j \in 1..Len(remaining_items(al)) :
        i <= Len(remaining_items(al)) /\ j <= Len(remaining_agents(al))

\* AssignMapFrom with every assigned pair entered twice
RECURSIVE AssignMapFrom_twice(_, _, _, _)
AssignMapFrom_twice(students, courses, x, j) ==
    IF j > Len(students) THEN <<>>
    ELSE (IF x[j] = 0 THEN <<>>
          ELSE <<(<<students[j], courses[x[j]]>>), (<<students[j], courses[x[j]]>>)>>)
            \o AssignMapFrom_twice(students, courses, x, j + 1)

\* lines 124-128: assign_map_course_to_student, in insertion order
RECURSIVE AssignMapFrom(_, _, _, _)
AssignMapFrom(students, courses, x, j) ==
    IF j > Len(students) THEN <<>>
    ELSE (IF x[j] = 0 THEN <<>> ELSE <<(<<students[j], courses[x[j]]>>)>>)
            \o AssignMapFrom(students, courses, x, j + 1)

AssignMap(al, x) == AssignMapFrom(remaining_agents(al), remaining_items(al), x, 1)

\* after the last give of an iteration the for loop takes the next one
EndIteration ==
    /\ iteration' = iteration + 1
    /\ pc' = "iterate"

\* lines 53, 81: cvxpy.Variable with a dimension of 0.  cvxpy is outside this
\* repository: it either rejects the shape or solves the empty programs
spo_empty ==
    /\ pc = "iterate"
    /\ iteration < max_iterations
    /\ (remaining_items(alloc) = <<>> \/ remaining_agents(alloc) = <<>>)
    /\ rank_mat' \in RankMats(alloc)
    /\ \/ /\ pc' = "error"
          /\ UNCHANGED <<iteration, result_Zt1>>
       \/ /\ Wt1LookupsInBounds(alloc)
          /\ result_Zt1' = {0}
          /\ EndIteration
    /\ given_now' = {}
    /\ UNCHANGED <<fixed, alloc, ps_vars, log,
                   max_iterations, pending>>

\* lines 89-94: building constraints_Wt1 raises IndexError
spo_index_error ==
    /\ pc = "iterate"
    /\ iteration < max_iterations
    /\ remaining_items(alloc) # <<>>
    /\ remaining_agents(alloc) # <<>>
    /\ ~Wt1LookupsInBounds(alloc)
    /\ \E rm \in RankMats(alloc) :
          /\ rank_mat' = rm
          /\ \E x_values \in OptimalZt1(alloc, rm) :
                result_Zt1' = {ObjectiveZt1(rm, x_values)}
    /\ pc' = "error"
    /\ given_now' = {}
    /\ UNCHANGED <<fixed, alloc, ps_vars, log,
                   max_iterations, iteration, pending>>

\* lines 41-128: one iteration up to the assignment map
spo_solve ==
    /\ pc = "iterate"
    /\ iteration < max_iterations
    /\ remaining_items(alloc) # <<>>
    /\ remaining_agents(alloc) # <<>>
    /\ Wt1LookupsInBounds(alloc)
    /\ \E rm \in RankMats(alloc) :
         \E x_values \in OptimalZt1(alloc, rm) :
            /\ rank_mat' = rm
            /\ result_Zt1' = {ObjectiveZt1(rm, x_values)}
            /\ pending' = AssignMap(alloc, x_values)
            /\ IF pending' = <<>>
                  THEN EndIteration
                  ELSE /\ pc' = "commit"
                       /\ UNCHANGED iteration
    /\ given_now' = {}
    /\ UNCHANGED <<fixed, alloc, ps_vars, log,
                   max_iterations>>

\* line 77: the solver finds no solution of program Zt1.  cvxpy is outside this
\* repository: solve() raises, or it returns a value that the stages of
\* lines 80-116 reject, or it returns None and the stages of lines 80-116 let
\* it pass, so that line 119 takes the else branch of lines 136-137
spo_solver_failure ==
    /\ pc = "iterate"
    /\ iteration < max_iterations
    /\ remaining_items(alloc) # <<>>
    /\ remaining_agents(alloc) # <<>>
    /\ rank_mat' \in RankMats(alloc)
    /\ result_Zt1' = {}
    /\ \/ /\ pc' = "error"
          /\ UNCHANGED iteration
       \/ /\ Wt1LookupsInBounds(alloc)
          /\ EndIteration
    /\ given_now' = {}
    /\ UNCHANGED <<fixed, alloc, ps_vars, log,
                   max_iterations, pending>>

\* lines 130-131: one give of the commit loop
spo_give ==
    /\ pc = "commit"
    /\ pending # <<>>
    /\ LET student == Head(pending)[1]
           course == Head(pending)[2]
       IN IF give_allowed(alloc, student, course)
             THEN /\ alloc' = give(alloc, student, course)
                  /\ log' = Append(log, <<student, course, iteration + 1>>)
                  /\ given_now' = given_now \cup {student}
                  /\ pending' = Tail(pending)
                  /\ IF pending' = <<>>
                        THEN EndIteration
                        ELSE UNCHANGED <<pc, iteration>>
             ELSE /\ pc' = "error"
                  /\ UNCHANGED <<alloc, log, given_now, pending, iteration>>
    /\ UNCHANGED <<fixed, ps_vars, max_iterations, rank_mat, result_Zt1>>

\* line 39: range(max_iterations) is used up
spo_return ==
    /\ pc = "iterate"
    /\ iteration >= max_iterations
    /\ pc' = "done"
    /\ UNCHANGED <<fixed, alloc, ps_vars, log,
                   spo_vars>>

SP_O_function ==
    \/ spo_start
    \/ spo_empty
    \/ spo_index_error
    \/ spo_solve
    \/ spo_solver_failure
    \/ spo_give
    \/ spo_return

Next ==
    \/ call_picking_sequence
    \/ round_robin
    \/ serial_dictatorship
    \/ bidirectional_round_robin
    \/ picking_sequence
    \/ SP_O_function

(***************************************************************************)
(* Properties.                                                             *)
(***************************************************************************)
\* dict.get(x, 0)
Get(cap, x) == IF x \in DOMAIN cap THEN cap[x] ELSE 0

\* the agents whose bundle contains item
Holders(al, item) == {a \in Agents : item \in Range(al.bundles[a])}

\* the give of this step, when the step makes one
Gave == log' # log
LastGive == log'[Len(log')]

\* C1: Capacity conservation.  In every reachable state of every algorithm,
\* each agent's bundle holds at most agent_capacity(agent) items and each
\* item is held by at most item_capacity(item) agents.
C1_CapacityConservation ==
    /\ \A a \in Agents : Len(alloc.bundles[a]) <= instance.agent_capacity[a]
    /\ \A i \in Items : Cardinality(Holders(alloc, i)) <= instance.item_capacity[i]

\* an agent holds a full bundle of two or more items and an item of capacity
\* two or more is held by as many agents as it has seats
C1_Witness ==
    /\ \E a \in Agents :
          /\ instance.agent_capacity[a] >= 2
          /\ Len(alloc.bundles[a]) = instance.agent_capacity[a]
    /\ \E i \in Items :
          /\ instance.item_capacity[i] >= 2
          /\ Cardinality(Holders(alloc, i)) = instance.item_capacity[i]

\* C2: No double assignment.  No give hands an agent an item that its bundle
\* already holds, and no give hands over a pair that is in
\* remaining_conflicts at the moment of the give.
C2_NoDoubleAssignment ==
    [][Gave =>
         /\ LastGive[2] \notin Range(alloc.bundles[LastGive[1]])
         /\ <<LastGive[1], LastGive[2]>> \notin alloc.remaining_conflicts]_vars

C4_Termination == <>(pc = "done")

\* C5, as claimed: for every agent, len(bundle[agent]) +
\* remaining_agent_capacities.get(agent, 0) = agent_capacity(agent), also
\* after remove_agent_from_loop took an agent with remaining capacity out.
C5_AgentAccounting ==
    \A a \in Agents :
        Len(alloc.bundles[a]) + Get(alloc.remaining_agent_capacities, a)
            = instance.agent_capacity[a]

\* C5, amended: the equation holds for every agent that picking_sequence has
\* not removed from the loop; for a removed agent the sum is smaller than
\* the agent's capacity.
C5_AgentAccountingAmended ==
    \A a \in Agents :
        LET sum == Len(alloc.bundles[a]) + Get(alloc.remaining_agent_capacities, a)
        IN IF a \in removed
              THEN sum < instance.agent_capacity[a]
              ELSE sum = instance.agent_capacity[a]

\* an agent was removed from the loop after it had received an item
C5_Witness == \E a \in removed : alloc.bundles[a] # <<>>

\* C6: Item accounting.  For every item, the number of agents whose bundle
\* contains it plus remaining_item_capacities.get(item, 0) is
\* item_capacity(item).
C6_ItemAccounting ==
    \A i \in Items :
        Cardinality(Holders(alloc, i)) + Get(alloc.remaining_item_capacities, i)
            = instance.item_capacity[i]

\* every item has remaining capacity 0 or every agent has remaining capacity 0
Exhausted(al) ==
    \/ \A i \in Items : Get(al.remaining_item_capacities, i) = 0
    \/ \A a \in Agents : Get(al.remaining_agent_capacities, a) = 0

\* some give(agent, item) satisfies give's precondition
LegalGiveExists(al) == \E a \in Agents : \E i \in Items : give_allowed(al, a, i)

\* C7, as claimed: isdone() iff every item or every agent has remaining
\* capacity 0, and that is exactly when no legal give exists.
C7_IsDoneExact ==
    /\ isdone(alloc) <=> Exhausted(alloc)
    /\ Exhausted(alloc) <=> ~LegalGiveExists(alloc)

\* C7, amended: isdone() iff every item or every agent has remaining
\* capacity 0, and then no legal give exists (a state without a legal give
\* need not be done: every remaining pair can be forbidden).
C7_IsDoneAmended ==
    /\ isdone(alloc) <=> Exhausted(alloc)
    /\ isdone(alloc) => ~LegalGiveExists(alloc)

\* gives have made isdone() true: the last seat of the items went, while an
\* agent still has remaining capacity
C7_Witness ==
    /\ log # <<>>
    /\ isdone(alloc)
    /\ DOMAIN alloc.remaining_agent_capacities # {}

\* C8: Picking-sequence determinism.  Two runs of round_robin,
\* serial_dictatorship or bidirectional_round_robin on the same instance with
\* the same agent_order end with the same bundles (compared here as sets of
\* items, the order of an agent's picks aside), ties included.
C8_Determinism ==
    (pc = "done" /\ second.pc = "done") =>
        \A a \in Agents :
            Range(alloc.bundles[a]) = Range(second.alloc.bundles[a])

\* the index of the first occurrence of x in s
FirstIndex(s, x) ==
    CHOOSE k \in 1..Len(s) : s[k] = x /\ \A j \in 1..(k - 1) : s[j] # x

\* the last turn of the first block of agent a in serial_dictatorship's
\* flattened order
BlockEnd(a) == FirstIndex(agent_order, a) + instance.agent_capacity[a] - 1

\* C9: serial_dictatorship gives one agent all its picks before the next.
\* The gives follow the order of the agents' first blocks; once the turns of
\* an agent's block are over the agent is at full capacity or removed from
\* the loop; and no give happens after the first lap of the flattened order.
C9_SerialDictatorship ==
    algorithm = "serial_dictatorship" =>
        /\ \A k, l \in 1..Len(log) :
              k < l => FirstIndex(agent_order, log[k][1])
                           <= FirstIndex(agent_order, log[l][1])
        /\ \A a \in Range(agent_order) :
              turn >= BlockEnd(a) =>
                  \/ Len(alloc.bundles[a]) = instance.agent_capacity[a]
                  \/ a \in removed
        /\ \A k \in 1..Len(log) : log[k][3] <= Len(agent_order)

\* a finished serial_dictatorship run in which one agent got two items and
\* another agent, later in the order, got an item too
C9_Witness ==
    /\ algorithm = "serial_dictatorship"
    /\ pc = "done"
    /\ \E a, b \in Agents :
          /\ a # b
          /\ Len(alloc.bundles[a]) >= 2
          /\ Len(alloc.bundles[b]) >= 1
          /\ log[1][1] = a

\* the agents with remaining capacity when the builder is built, in the
\* instance's original order
InitialAgents ==
    SelectSeq(AgentList, LAMBDA a : instance.agent_capacity[a] > 0)

\* the order O followed by reversed(O), by index: ABCCBA
ABCCBA ==
    LET O == IF order_arg = None THEN InitialAgents ELSE order_arg
    IN [k \in 1..(2 * Len(O)) |->
            IF k <= Len(O) THEN O[k] ELSE O[2 * Len(O) + 1 - k]]

\* C10: bidirectional_round_robin with order O goes through the same
\* builder states as picking_sequence called with O followed by
\* reversed(O): it enters the loop at the start of that order with the
\* builder as built, and in every loop state its step is a step of
\* picking_sequence on that order, the possible steps being the same.
C10_Bidirectional ==
    [][algorithm = "bidirectional_round_robin" =>
         /\ pc = "call" => (pc' = "loop" /\ alloc' = alloc /\ pos' = 1)
         /\ pc = "loop" =>
               /\ [alloc |-> alloc', pos |-> pos', pc |-> pc']
                      \in PickingSequenceTurn(alloc, ABCCBA, pos)
               /\ PickingSequenceTurn(alloc, agent_order, pos)
                      = PickingSequenceTurn(alloc, ABCCBA, pos)]_vars

\* a finished bidirectional_round_robin run with the default order whose
\* gives went to Alice, Bob, Bob, Alice
C10_Witness ==
    /\ algorithm = "bidirectional_round_robin"
    /\ order_arg = None
    /\ pc = "done"
    /\ Len(log) = 4
    /\ [k \in 1..4 |-> log[k][1]] = <<"Alice", "Bob", "Bob", "Alice">>

\* the doctest's call of round_robin has returned
Scenario1Done ==
    /\ instance = Scenario1
    /\ algorithm = "round_robin"
    /\ order_arg = None
    /\ pc = "done"

Scenario5Run == instance = Scenario5 /\ algorithm = "SP_O_function"

\* C12: Scenario 5.  SP_O_function completes without error on the doctest's
\* instance, and whatever optimal solution stage 1 returns, the final bundles
\* are s1 [c2], s2 [c1].
C12_Scenario5 ==
    Scenario5Run =>
        /\ pc # "error"
        /\ pc = "done" => alloc.bundles = ("s1" :> <<"c2">>) @@ ("s2" :> <<"c1">>)

\* C13: in every iteration of SP_O_function each agent receives at most one
\* item, so after k iterations every bundle holds at most k items.
C13_OnePerIteration ==
    algorithm = "SP_O_function" =>
        /\ \A k, l \in 1..Len(log) :
              (k # l /\ log[k][1] = log[l][1]) => log[k][3] # log[l][3]
        /\ pc \in {"iterate", "done"} =>
              \A a \in Range(instance.agents) : Len(alloc.bundles[a]) <= iteration

\* SP_O_function has returned after two iterations that gave both agents an
\* item each
C13_Witness ==
    /\ algorithm = "SP_O_function"
    /\ pc = "done"
    /\ iteration = 2
    /\ \A a \in Range(instance.agents) : Len(alloc.bundles[a]) = 2

\* the step of an SP-O iteration whose stage-1 solve finds no solution
SolverFails ==
    /\ pc = "iterate"
    /\ iteration < max_iterations
    /\ result_Zt1' = {}

\* C14: SP-O solver failure is a soft failure.  An iteration whose stage-1
\* solve finds no solution makes no give, leaves the builder unchanged and
\* raises no error: the algorithm goes on to the next iteration, or returns.
C14_SoftFailure ==
    [][SolverFails =>
         /\ alloc' = alloc
         /\ log' = log
         /\ pc' = "iterate"
         /\ iteration' = iteration + 1]_vars

\* a turn of the loop of picking_sequence
PickingTurn == pc = "loop" /\ agent_order # <<>>

\* C15: in every turn of picking_sequence in which the current agent has
\* remaining capacity and remaining_items_for_agent(agent) is not empty,
\* exactly one give happens: to the current agent, of an item of that set
\* whose effective value no other item of the set exceeds.
C15_BestPick ==
    [][(/\ PickingTurn
        /\ CurrentAgent \in DOMAIN alloc.remaining_agent_capacities
        /\ remaining_items_for_agent(alloc, CurrentAgent) # {}) =>
          /\ Len(log') = Len(log) + 1
          /\ LastGive[1] = CurrentAgent
          /\ LastGive[2] \in remaining_items_for_agent(alloc, CurrentAgent)
          /\ \A other \in remaining_items_for_agent(alloc, CurrentAgent) :
                effective_value(alloc, CurrentAgent, other)
                    <= effective_value(alloc, CurrentAgent, LastGive[2])
          /\ alloc' = give(alloc, CurrentAgent, LastGive[2])
          /\ pc' = "loop"]_vars

\* an agent that values c1 above c2 got c1 and then c2
C15_Witness ==
    /\ algorithm \in {"picking_sequence", "round_robin"}
    /\ \E a \in Range(instance.agents) :
          /\ instance.valuation[a]["c1"] > instance.valuation[a]["c2"]
          /\ alloc.bundles[a] = <<"c1", "c2">>

\* the commit loop of an SP-O iteration is about to call give
Committing == algorithm = "SP_O_function" /\ pc = "commit" /\ pending # <<>>

\* C16: every give that SP_O_function commits satisfies give's precondition
\* when it is called: agent and item have remaining capacity, the pair is not
\* in remaining_conflicts, and the item is in remaining_items_for_agent(agent).
C16_CommitPrecondition ==
    [][Committing =>
         LET student == Head(pending)[1]
             course == Head(pending)[2]
         IN /\ give_allowed(alloc, student, course)
            /\ course \in remaining_items_for_agent(alloc, student)
            /\ alloc' = give(alloc, student, course)]_vars

\* C17: SP_O_function ends without error after at most max_iterations
\* iterations, max_iterations being the largest remaining agent capacity at
\* the start; also when no agent has remaining capacity at the start, and
\* when isdone() becomes true before the last iteration.
C17_SPOTerminates ==
    algorithm = "SP_O_function" =>
        /\ pc # "error"
        /\ iteration <= max_iterations
        /\ pc \in {"iterate", "commit", "done"} =>
              \A a \in Range(instance.agents) :
                  max_iterations >= instance.agent_capacity[a]

\* the step of an SP-O iteration that builds the rank matrix
BuildsRankMat == pc = "iterate" /\ iteration < max_iterations

\* C18: SP-O rank matrix.  For every remaining agent the eligible items are
\* ranked by descending effective value, rank 1 the most preferred, rank n
\* the least preferred of the n eligible items; every other remaining item
\* has rank n + 1; and the stage-1 optimum gives no agent an ineligible item
\* or a less valued item while a more valued eligible item keeps a free seat.
C18_RankMatrix ==
    [][BuildsRankMat =>
         LET students == remaining_agents(alloc)
             courses == remaining_items(alloc)
             eligible(j) == remaining_items_for_agent(alloc, students[j])
             value(j, i) == effective_value(alloc, students[j], courses[i])
             taken(c) == Cardinality({k \in 1..Len(pending') : pending'[k][2] = c})
         IN /\ \A j \in 1..Len(students) : \A i \in 1..Len(courses) :
                  IF courses[i] \in eligible(j)
                     THEN /\ rank_mat'[i][j] \in 1..Cardinality(eligible(j))
                          /\ \A h \in 1..Len(courses) :
                                (courses[h] \in eligible(j) /\ value(j, h) > value(j, i))
                                    => rank_mat'[h][j] < rank_mat'[i][j]
                     ELSE rank_mat'[i][j] = Cardinality(eligible(j)) + 1
            /\ \A k \in 1..Len(pending') :
                  LET student == pending'[k][1]
                      course == pending'[k][2]
                  IN \A better \in remaining_items_for_agent(alloc, student) :
                         (\/ course \notin remaining_items_for_agent(alloc, student)
                          \/ effective_value(alloc, student, better)
                                 > effective_value(alloc, student, course))
                             => taken(better) = alloc.remaining_item_capacities[better]]_vars

\* C19: in the dual stage the constraint of each (agent, item) pair uses the
\* rank that the rank matrix holds for that agent and that item, every lookup
\* being within the matrix, whatever the numbers of remaining agents and
\* items.  (Lines 41-51 keep the rank of the j-th item for the i-th agent
\* in row j, column i.)
C19_DualRanks ==
    [][BuildsRankMat =>
         \A i \in 1..Len(remaining_agents(alloc)) :
             \A j \in 1..Len(remaining_items(alloc)) :
                 /\ Wt1LookupsInBounds(alloc)
                 /\ Wt1Rank(rank_mat', i, j) = rank_mat'[j][i]]_vars

\* C20: a turn of picking_sequence whose agent has no remaining capacity,
\* isdone() being false, leaves the builder as it is: remaining capacities,
\* remaining_conflicts and bundles.
C20_SkipFrame ==
    [][(/\ PickingTurn
        /\ ~isdone(alloc)
        /\ CurrentAgent \notin DOMAIN alloc.remaining_agent_capacities) =>
          /\ alloc' = alloc
          /\ log' = log
          /\ pc' = "loop"]_vars

\* within the first lap some turn was neither a give nor a removal, and the
\* agent of the last turn is without remaining capacity and has a forbidden
\* pair
C20_Witness ==
    /\ pc = "loop"
    /\ turn <= Len(agent_order)
    /\ turn > Len(log) + Cardinality(removed)
    /\ \E p \in alloc.remaining_conflicts :
          p[1] = agent_order[turn]
              /\ p[1] \notin DOMAIN alloc.remaining_agent_capacities

\* C21: a turn of picking_sequence that finds remaining_items_for_agent(agent)
\* empty for an agent with remaining capacity calls
\* remove_agent_from_loop(agent) and makes no give; bundles and remaining item
\* capacities stay as they are, the agent is no longer in remaining_agents(),
\* and no later turn gives the agent an item.
C21_Removal ==
    [][/\ (/\ PickingTurn
            /\ ~isdone(alloc)
            /\ CurrentAgent \in DOMAIN alloc.remaining_agent_capacities
            /\ remaining_items_for_agent(alloc, CurrentAgent) = {}) =>
              /\ alloc' = remove_agent_from_loop(alloc, CurrentAgent)
              /\ log' = log
              /\ alloc'.bundles = alloc.bundles
              /\ alloc'.remaining_item_capacities = alloc.remaining_item_capacities
              /\ CurrentAgent \notin Range(remaining_agents(alloc'))
              /\ CurrentAgent \in removed'
       /\ \A a \in removed :
              /\ a \notin Range(remaining_agents(alloc))
              /\ alloc'.bundles[a] = alloc.bundles[a]]_vars

\* an agent was removed from the loop in its first turn, and a later turn
\* gave another agent an item
C21_Witness ==
    \E a \in removed :
        /\ alloc.bundles[a] = <<>>
        /\ \E k \in 1..Len(log) : log[k][3] > FirstIndex(agent_order, a)

\* picking_sequence has returned, from an agent_order that names every agent
PickingDone ==
    /\ algorithm # "SP_O_function"
    /\ pc = "done"
    /\ Range(agent_order) = Range(instance.agents)

\* C22: non-wastefulness at termination.  When picking_sequence stops with an
\* agent_order that names every agent, every agent holds agent_capacity(agent)
\* items or has no eligible item left: no item with remaining capacity that
\* is not in its bundle, not in its agent conflicts and not in conflict with
\* an item of its bundle.
C22_NonWasteful ==
    PickingDone =>
        \A a \in Range(instance.agents) :
            \/ Len(alloc.bundles[a]) = instance.agent_capacity[a]
            \/ ~\E i \in Range(instance.items) :
                    /\ Get(alloc.remaining_item_capacities, i) > 0
                    /\ i \notin Range(alloc.bundles[a])
                    /\ i \notin instance.agent_conflicts[a]
                    /\ \A b \in Range(alloc.bundles[a]) : ~ItemsConflict(i, b)

\* picking_sequence has returned with an agent below its capacity while an
\* item keeps a free seat, after a give to each agent
C22_Witness ==
    /\ PickingDone
    /\ \A a \in Range(instance.agents) : alloc.bundles[a] # <<>>
    /\ \E a \in Range(instance.agents) :
          Len(alloc.bundles[a]) < instance.agent_capacity[a]
    /\ DOMAIN alloc.remaining_item_capacities # {}

\* a round_robin run whose order names each agent that has remaining
\* capacity once, and no agent twice
RoundRobinOnceEach ==
    /\ algorithm = "round_robin"
    /\ pc \in {"loop", "done"}
    /\ \A k, l \in 1..Len(agent_order) : agent_order[k] = agent_order[l] => k = l
    /\ DOMAIN alloc.remaining_agent_capacities \subseteq Range(agent_order)

\* C23: round-robin balance.  At every point of a round_robin run with an
\* order in which each agent appears once, the bundles of any two agents that
\* still have remaining capacity (and so were not removed from the loop)
\* differ in size by at most 1, and the one earlier in the order never holds
\* fewer items than the later one.
C23_Balance ==
    RoundRobinOnceEach =>
        \A a, b \in DOMAIN alloc.remaining_agent_capacities :
            /\ Len(alloc.bundles[a]) - Len(alloc.bundles[b]) <= 1
            /\ FirstIndex(agent_order, a) < FirstIndex(agent_order, b)
                  => Len(alloc.bundles[a]) >= Len(alloc.bundles[b])

\* in a run with an order other than the default one, two agents with
\* remaining capacity hold two items each, and before that held two and one
C23_Witness ==
    /\ RoundRobinOnceEach
    /\ order_arg # None
    /\ agent_order # instance.agents
    /\ \E a, b \in DOMAIN alloc.remaining_agent_capacities :
          /\ a # b
          /\ Len(alloc.bundles[a]) = 2
          /\ Len(alloc.bundles[b]) = 2
          /\ log[Len(log)][1] = b

Spec == Init /\ [][Next]_vars

\* two runs of one call of round_robin, serial_dictatorship or
\* bidirectional_round_robin
TwoRuns ==
    /\ InitFor({"round_robin", "serial_dictatorship", "bidirectional_round_robin"})
    /\ [][NextTwoRuns]_vars

\* picking_sequence alone, called with an explicit agent_order; the loop is
\* sequential code that always takes its next step
NextPicking == call_picking_sequence \/ picking_sequence
FairPicking ==
    /\ InitFor({"picking_sequence"})
    /\ [][NextPicking]_vars
    /\ WF_vars(NextPicking)

\* the doctests' calls
NextScenarios == round_robin \/ picking_sequence \/ SP_O_function
Scenarios == InitScenarios /\ [][NextScenarios]_vars

====
